---- MODULE Spec2Model ----
(***************************************************************************)
(* Model of app.py, the Streamlit "AI Job Assistant".                      *)
(*                                                                         *)
(* A text is a sequence of tokens.  A token is either one character        *)
(* (a digit, a blank, ":", "%", ...) or one whole word written in letters  *)
(* ("Match", "percentage", "Error", ...).  A word token begins and ends    *)
(* with a letter, and no word token other than the two label words holds   *)
(* a part of the label, so matching the two regular expressions of         *)
(* extract_match_percentage token by token is what matching them           *)
(* character by character does on the text the tokens spell.               *)
(***************************************************************************)
EXTENDS Integers, Sequences, FiniteSets, TLC

VARIABLES
    pc,                \* where the modelled piece of the script stands
    response,          \* what get_openrouter_response returned: [type, text]
    match_percentage,  \* line 166 (-1 while unset)
    subheader,         \* the percentage of the subheader of line 171
    sizes,             \* the slice sizes display_pie_chart hands to ax.pie
    verdict,           \* the words of line 174
    uncaught,          \* the exception that ended the script run ("" for none)
    call,              \* how get_openrouter_response returned: "return", "except"
    outcome,           \* what the remote call of line 56 came to
    page,              \* the feature chosen in the sidebar (line 113)
    uploaded_file,     \* the file in the uploader: <<>> or <<[name, data]>>
    job_description,   \* the job description typed in (lines 121, 198)
    cache,             \* the entries of st.cache_data for extract_text_from_pdf
    run                \* what the last script run did

view == <<pc, response, match_percentage, subheader, sizes, verdict, uncaught, call>>

session == <<page, uploaded_file, job_description, cache, run>>

vars == <<view, outcome, session>>

\* ------------------------------------------------------------------ bounds

\* Longest response text (in tokens) the interpreter is run on.
MaxLen == 6

\* ------------------------------------------------------------- characters

Digits == {"0", "1", "2", "3", "4", "5", "6", "7", "8", "9"}

\* \s of the re module: blanks and line breaks.
Whitespace == {" ", "\n"}

\* The one-character tokens that are neither letters, digits nor "_".  "!"
\* stands for the warning sign of the error marker of line 60.
Punctuation ==
    Whitespace \cup {":", "%", "=", "(", ")", "'", ".", ",", "/", "-", "!"}

\* \w of the re module: letters, digits and the underscore; every token that
\* is no punctuation is a digit, "_" or a word of letters.
IsWordChar(c) == c \notin Punctuation

\* str.lower() of a token, as re.IGNORECASE compares.
Lower(c) ==
    CASE c \in {"Match", "match", "MATCH"} -> "match"
      [] c \in {"Percentage", "percentage", "PERCENTAGE"} -> "percentage"
      [] c = "Error" -> "error"
      [] OTHER -> c

DigitVal(c) ==
    CASE c = "0" -> 0 [] c = "1" -> 1 [] c = "2" -> 2 [] c = "3" -> 3
      [] c = "4" -> 4 [] c = "5" -> 5 [] c = "6" -> 6 [] c = "7" -> 7
      [] c = "8" -> 8 [] c = "9" -> 9

\* int(s) of a string of decimal digits: leading zeros carry no value.
RECURSIVE int(_)
int(s) ==
    IF s = <<>> THEN 0
    ELSE 10 * int(SubSeq(s, 1, Len(s) - 1)) + DigitVal(s[Len(s)])

\* ------------------------------------------------------------ re matching

\* The position after the longest run of tokens of class S that starts at i.
RECURSIVE SpanEnd(_, _, _)
SpanEnd(t, i, S) ==
    IF i <= Len(t) /\ t[i] \in S THEN SpanEnd(t, i + 1, S) ELSE i

Max(S) == CHOOSE x \in S : \A y \in S : y <= x

\* [\d]+% tried at position k: the ends e of the digit runs k..e-1 that a "%"
\* follows.
DigitsThenPercent(t, k) ==
    {e \in (k + 1)..SpanEnd(t, k, Digits) : e <= Len(t) /\ t[e] = "%"}

\* [:\s]*([\d]+)% tried at position j: the starts k of the group.
SeparatorsThenGroup(t, j) ==
    {k \in j..SpanEnd(t, j, Whitespace \cup {":"}) : DigitsThenPercent(t, k) # {}}

\* \s*Percentage[:\s]*([\d]+)% tried at position i, ignoring case: the
\* positions j of "Percentage".
BlanksThenPercentage(t, i) ==
    {j \in i..SpanEnd(t, i, Whitespace) :
        /\ j <= Len(t)
        /\ Lower(t[j]) = "percentage"
        /\ SeparatorsThenGroup(t, j + 1) # {}}

\* Line 65 without re.IGNORECASE.
LabelMatchesAt_CaseSensitive(t, i) ==
    /\ i <= Len(t)
    /\ t[i] = "Match"
    /\ BlanksThenPercentage(t, i + 1) # {}

\* The pattern of line 65 tried at position i.
LabelMatchesAt(t, i) ==
    /\ i <= Len(t)
    /\ Lower(t[i]) = "match"
    /\ BlanksThenPercentage(t, i + 1) # {}

\* match.group(1) of the match that starts at i: every quantifier of the
\* pattern is greedy, so each takes the longest run that lets the rest match.
LabelGroupAt(t, i) ==
    LET j == Max(BlanksThenPercentage(t, i + 1))
        k == Max(SeparatorsThenGroup(t, j + 1))
        e == Max(DigitsThenPercent(t, k))
    IN  SubSeq(t, k, e - 1)

\* re.search(r"Match\s*Percentage[:\s]*([\d]+)%", text, re.IGNORECASE):
\* <<>> for None, else <<group(1)>> of the leftmost match.
re_search_label(t) ==
    LET starts == {i \in 1..Len(t) : LabelMatchesAt(t, i)}
    IN  IF starts = {} THEN <<>>
        ELSE <<LabelGroupAt(t, CHOOSE i \in starts : \A x \in starts : i <= x)>>

\* \b before position i: exactly one of the tokens at i-1 and i is a word
\* character (the ends of the text count as non-word).
WordBoundary(t, i) ==
    LET before == i > 1 /\ IsWordChar(t[i - 1])
        after  == i <= Len(t) /\ IsWordChar(t[i])
    IN  before # after

\* \b\d+\b tried at position i: the ends of the match.
BareNumberEnds(t, i) ==
    IF WordBoundary(t, i)
    THEN {e \in (i + 1)..SpanEnd(t, i, Digits) : WordBoundary(t, e)}
    ELSE {}

\* re.findall(r'\b\d+\b', text) from position i on: the matches, left to
\* right, the scan going on after each match.
RECURSIVE re_findall_from(_, _)
re_findall_from(t, i) ==
    IF i > Len(t) THEN <<>>
    ELSE IF BareNumberEnds(t, i) # {}
         THEN LET e == Max(BareNumberEnds(t, i))
              IN  <<SubSeq(t, i, e - 1)>> \o re_findall_from(t, e)
         ELSE re_findall_from(t, i + 1)

re_findall_numbers(t) == re_findall_from(t, 1)

\* Lines 70-73 with the upper end of the range left out.
RECURSIVE first_in_range_Below100(_, _)
first_in_range_Below100(numbers, i) ==
    IF i > Len(numbers) THEN 50
    ELSE IF 50 <= numbers[i] /\ numbers[i] < 100 THEN numbers[i]
         ELSE first_in_range_Below100(numbers, i + 1)

\* Lines 70-73 with a default of 0.
RECURSIVE first_in_range_Default0(_, _)
first_in_range_Default0(numbers, i) ==
    IF i > Len(numbers) THEN 0
    ELSE IF 50 <= numbers[i] /\ numbers[i] <= 100 THEN numbers[i]
         ELSE first_in_range_Default0(numbers, i + 1)

\* The loop of lines 70-73 over numbers[i..]: the first number in [50, 100],
\* or the default 50.
RECURSIVE first_in_range(_, _)
first_in_range(numbers, i) ==
    IF i > Len(numbers) THEN 50
    ELSE IF 50 <= numbers[i] /\ numbers[i] <= 100 THEN numbers[i]
         ELSE first_in_range(numbers, i + 1)

extract_match_percentage(response_text) ==
    LET match == re_search_label(response_text)
    IN  IF match # <<>> THEN int(match[1])
        ELSE LET found   == re_findall_numbers(response_text)
                 numbers == [n \in 1..Len(found) |-> int(found[n])]
             IN  first_in_range(numbers, 1)

\* Lines 78-86 with the first threshold exclusive.
match_percentage_to_words_Above80(p) ==
    IF p > 80 THEN "Excellent Match"
    ELSE IF p >= 60 THEN "Strong Match"
    ELSE IF p >= 40 THEN "Good Match"
    ELSE IF p >= 20 THEN "Weak Match"
    ELSE "Poor Match"

match_percentage_to_words(p) ==
    IF p >= 80 THEN "Excellent Match"
    ELSE IF p >= 60 THEN "Strong Match"
    ELSE IF p >= 40 THEN "Good Match"
    ELSE IF p >= 20 THEN "Weak Match"
    ELSE "Poor Match"

\* Line 92 with the second slice not reduced by the first.
display_pie_chart_Whole(p) == <<p, 100>>

\* sizes of display_pie_chart, as handed to ax.pie.
display_pie_chart(p) == <<p, 100 - p>>

\* --------------------------------------------------- the remote call

\* A JSON value as response.json() gives it, along the one path line 58
\* follows.  kind is the JSON type; text is the text of a string; sub holds
\* what the subscript line 58 applies to a container finds in it: for an
\* object the member under the key asked for (<<>>: no such key), for an array
\* its first element (<<>>: the array is empty).
Json(kind, sub, text) == [kind |-> kind, sub |-> sub, text |-> text]

JsonString(t) == Json("string", <<>>, t)

JsonNull == Json("null", <<>>, <<>>)

\* Words with single blanks between them.
RECURSIVE Spaced(_)
Spaced(words) ==
    IF Len(words) <= 1 THEN words
    ELSE <<Head(words), " ">> \o Spaced(Tail(words))

\* str(n) of an integer n >= 0.
RECURSIVE str_int(_)
str_int(n) ==
    LET digit == CHOOSE c \in Digits : DigitVal(c) = n % 10
    IN  IF n < 10 THEN <<digit>> ELSE str_int(n \div 10) \o <<digit>>

\* The outcome of one subscript: the value, or the text of the exception.
Found(v) == [ok |-> TRUE, value |-> v, message |-> <<>>]

Raised(message) == [ok |-> FALSE, value |-> JsonNull, message |-> message]

NotSubscriptable(kind) ==
    LET type == CASE kind = "null" -> "NoneType"
                  [] kind = "number" -> "int"
                  [] OTHER -> kind
    IN  Raised(<<"'", type, "'", " ">> \o Spaced(<<"object", "is", "not", "subscriptable">>))

\* v[key] for a string key, as Python evaluates it; str(KeyError(key)) is the
\* key in quotes.
getitem_key(v, key) ==
    CASE v.kind = "dict" ->
            IF v.sub = <<>> THEN Raised(<<"'", key, "'">>) ELSE Found(v.sub[1])
      [] v.kind = "list" ->
            Raised(Spaced(<<"list", "indices", "must", "be", "integers", "or", "slices">>)
                   \o <<",", " ">> \o Spaced(<<"not", "str">>))
      [] v.kind = "string" ->
            Raised(Spaced(<<"string", "indices", "must", "be", "integers">>)
                   \o <<",", " ", "not", " ", "'", "str", "'">>)
      [] OTHER -> NotSubscriptable(v.kind)

\* v[0], as Python evaluates it: the first element of a list, the first
\* character of a string (whatever it is, it is a string again); the keys of
\* a JSON object are strings, so 0 is none of them and str(KeyError(0)) is "0".
getitem_0(v) ==
    CASE v.kind = "list" ->
            IF v.sub = <<>> THEN Raised(Spaced(<<"list", "index", "out", "of", "range">>))
            ELSE Found(v.sub[1])
      [] v.kind = "string" ->
            IF v.text = <<>> THEN Raised(Spaced(<<"string", "index", "out", "of", "range">>))
            ELSE Found(JsonString(<<v.text[1]>>))
      [] v.kind = "dict" -> Raised(<<"0">>)
      [] OTHER -> NotSubscriptable(v.kind)

\* The Python value of a JSON value: its type and, for a string, its text.
PyValue(v) ==
    [type |-> CASE v.kind = "string" -> "str"
                [] v.kind = "null" -> "NoneType"
                [] v.kind = "number" -> "int"
                [] OTHER -> v.kind,
     text |-> v.text]

Str(t) == [type |-> "str", text |-> t]

\* The marker of line 60: the warning sign, a blank, "Error: ".
ErrorMarker == <<"!", " ", "Error", ":", " ">>

\* response.json()["choices"][0]["message"]["content"] of line 58.
content_of(body) ==
    LET choices == getitem_key(body, "choices")
        first   == IF choices.ok THEN getitem_0(choices.value) ELSE choices
        message == IF first.ok THEN getitem_key(first.value, "message") ELSE first
    IN  IF message.ok THEN getitem_key(message.value, "content") ELSE message

\* What the remote call comes to: an exception raised by requests.post, by
\* raise_for_status or by response.json() (stage, message: its str()), or a
\* status 2xx with a JSON body (stage "ok").
Outcome(stage, message, body) == [stage |-> stage, message |-> message, body |-> body]

\* Lines 55-60: the value returned, and whether line 58 or line 60 returned
\* it.  except Exception catches whatever lines 56-58 raise.
get_openrouter_response(remote) ==
    IF remote.stage # "ok" THEN [call |-> "except", value |-> Str(ErrorMarker \o remote.message)]
    ELSE LET content == content_of(remote.body)
         IN  IF content.ok
             THEN [call |-> "return", value |-> PyValue(content.value)]
             ELSE [call |-> "except", value |-> Str(ErrorMarker \o content.message)]

\* ---------------------------------------------------------------- inputs

\* The tokens response texts are drawn from.
Alphabet == {"match", "Percentage", " ", "%", "0", "1", "5"}

\* The response texts of the scenarios of the specification, and variations
\* of them that are longer than MaxLen tokens.
ScenarioTexts ==
    {<<"Match", " ", "Percentage", ":", " ", "8", "2", "%", "\n">>
        \o Spaced(<<"Missing", "Keywords">>) \o <<":", " ", "Docker">>,
     Spaced(<<"score", "is", "around">>) \o <<" ", "6", "5", " ">>
        \o Spaced(<<"out", "of", "many", "factors">>),
     Spaced(<<"Candidate", "has", "3", "years", "experience", "and">>)
        \o <<" ", "1", "2", " ">> \o Spaced(<<"missing", "skills">>),
     <<"Match", " ", "Percentage", ":", "1", "0", "5", "%">>,
     <<"MATCH", "\n", "PERCENTAGE", " ", ":", ":", " ", "0", "0", "7", "%">>,
     <<"about", " ", "7", "0">> \o <<".", " ", "Match", " ", "Percentage", ":", " ",
                                       "3", "5", "%">>,
     <<"-", "6", "5">>,
     <<"in", " ", "2", "0", "2", "4">> \o <<",", " ", "1", "0", "0", "/", "1", "0", "0">>}

\* A 2xx body of the shape line 58 expects, with content the string t.
SuccessBody(t) ==
    Json("dict", <<Json("list", <<Json("dict", <<Json("dict", <<JsonString(t)>>, <<>>)>>,
                                       <<>>)>>, <<>>)>>, <<>>)

\* Deepest nesting of the JSON bodies the remote call is answered with.
MaxDepth == 4

\* The texts of the strings in those bodies.
BodyTexts == {<<>>, <<"score", " ", "5", "5">>, <<"Match", " ", "Percentage", ":", " ", "5", "%">>}

JsonScalars ==
    {Json(k, <<>>, <<>>) : k \in {"null", "number", "bool", "list", "dict"}}
        \cup {JsonString(t) : t \in BodyTexts}

RECURSIVE JsonValues(_)
JsonValues(depth) ==
    IF depth = 0 THEN JsonScalars
    ELSE JsonScalars
            \cup {Json(k, <<c>>, <<>>) : k \in {"list", "dict"}, c \in JsonValues(depth - 1)}

\* timeout=60 of line 56.
RequestTimeout == 60

\* str() of the exception requests.post raises when the answer does not come
\* within the timeout of line 56:
\* HTTPSConnectionPool(host='openrouter.ai', port=443): Read timed out. (read timeout=60)
ReadTimeoutMessage ==
    <<"HTTPSConnectionPool", "(", "host", "=", "'", "openrouter", ".", "ai", "'", ",", " ",
      "port", "=", "4", "4", "3", ")", ":", " ">>
        \o Spaced(<<"Read", "timed", "out">>) \o <<".", " ", "(">>
        \o Spaced(<<"read", "timeout">>) \o <<"=">> \o str_int(RequestTimeout) \o <<")">>

\* str() of the HTTPError raise_for_status raises for a status from 400 on:
\* 429 Client Error: Too Many Requests for url: https://openrouter.ai/api/v1/chat/completions
HTTPErrorMessage(status) ==
    str_int(status) \o <<" ">>
        \o Spaced(<<IF status < 500 THEN "Client" ELSE "Server", "Error">>) \o <<":", " ">>
        \o Spaced(<<"reason", "for", "url">>)
        \o <<":", " ", "https", ":", "/", "/", "openrouter", ".", "ai", "/", "api", "/", "v1",
             "/", "chat", "/", "completions">>

\* str() of the JSONDecodeError response.json() raises on a body that is no
\* JSON: Expecting value: line 1 column 1 (char 0)
JSONDecodeMessage ==
    Spaced(<<"Expecting", "value">>) \o <<":", " ">>
        \o Spaced(<<"line", "1", "column", "1">>) \o <<" ", "(", "char", " ", "0", ")">>

ErrorStatuses == {400, 401, 402, 403, 404, 408, 429, 500, 502, 503}

FailedCalls ==
    {Outcome("post", ReadTimeoutMessage, JsonNull),
     Outcome("json", JSONDecodeMessage, JsonNull)}
        \cup {Outcome("raise_for_status", HTTPErrorMessage(s), JsonNull) : s \in ErrorStatuses}

AnsweredCalls == {Outcome("ok", <<>>, b) : b \in JsonValues(MaxDepth)}

\* ------------------------------------------------- the match interpretation

\* What a script run that has not come to the match branch leaves of it.
NoMatch ==
    [pc |-> "idle", match_percentage |-> -1, subheader |-> -1, sizes |-> <<>>,
     verdict |-> "", uncaught |-> ""]

\* Lines 171-176: the percentage, the chart and the words are rendered.
rendered_match(p) ==
    [pc |-> "shown", match_percentage |-> p, subheader |-> p,
     sizes |-> display_pie_chart(p), verdict |-> match_percentage_to_words(p),
     uncaught |-> ""]

\* Lines 166-176: the response is interpreted and the result rendered.
\* re.search raises TypeError on anything but a string, and nothing catches it.
interpret(value) ==
    IF value.type = "str"
    THEN rendered_match(extract_match_percentage(value.text))
    ELSE [NoMatch EXCEPT !.pc = "aborted", !.uncaught = "TypeError"]

Show(m) ==
    /\ pc' = m.pc
    /\ match_percentage' = m.match_percentage
    /\ subheader' = m.subheader
    /\ sizes' = m.sizes
    /\ verdict' = m.verdict
    /\ uncaught' = m.uncaught

\* The script has not run yet.
NoRun == [button |-> "", calls |-> <<>>, opened |-> <<>>, rendered |-> <<>>, image |-> <<>>]

NoSession ==
    /\ page = "Resume Analyzer"
    /\ uploaded_file = <<>>
    /\ job_description = <<>>
    /\ cache = {}
    /\ run = NoRun

\* Before the match branch runs: the remote call will come to remote.
Pending(remote) ==
    /\ pc = "idle"
    /\ outcome = remote
    /\ call = ""
    /\ response = Str(<<>>)
    /\ match_percentage = -1
    /\ subheader = -1
    /\ sizes = <<>>
    /\ verdict = ""
    /\ uncaught = ""
    /\ NoSession

\* Lines 163-179: the match branch.
MatchBranch ==
    LET answer == get_openrouter_response(outcome)
    IN  /\ pc = "idle"
        /\ call' = answer.call
        /\ response' = answer.value
        /\ Show(interpret(answer.value))
        /\ UNCHANGED <<outcome, session>>

\* Lines 166-179: the match branch from the response on.
InterpretResponse ==
    /\ pc = "answered"
    /\ Show(interpret(response))
    /\ UNCHANGED <<call, outcome, response, session>>

\* The remote call has returned the string t.
Answered(t) ==
    /\ pc = "answered"
    /\ outcome = Outcome("ok", <<>>, JsonNull)
    /\ call = "return"
    /\ response = Str(t)
    /\ match_percentage = -1
    /\ subheader = -1
    /\ sizes = <<>>
    /\ verdict = ""
    /\ uncaught = ""
    /\ NoSession

\* The interpretation of every response text of the model.
InitInterpret ==
    \/ \E n \in 0..MaxLen : \E t \in [1..n -> Alphabet] : Answered(t)
    \/ \E t \in ScenarioTexts : Answered(t)

SpecInterpret == InitInterpret /\ [][InterpretResponse]_vars

\* The match branch on every outcome of the remote call.
InitClient == \E remote \in FailedCalls \cup AnsweredCalls : Pending(remote)

SpecClient == InitClient /\ [][MatchBranch]_vars

\* ------------------------------------------- classification and proportions

\* Largest percentage the classification is run on.
MaxPercentage == 120

\* Lines 171-176 for every percentage.
DisplayMatch ==
    /\ pc = "idle"
    /\ \E p \in 0..MaxPercentage : Show(rendered_match(p))
    /\ UNCHANGED <<call, outcome, response, session>>

InitClassify == Pending(Outcome("", <<>>, JsonNull))

SpecClassify == InitClassify /\ [][DisplayMatch]_vars

\* ------------------------------------------------------- the script runs

\* The PDFs the user uploads: a name and the bytes.
Files == {[name |-> "cv.pdf", data |-> <<1, 2>>], [name |-> "resume.pdf", data |-> <<3>>]}

JobDescriptions == {<<>>, <<" ">>, <<"engineer">>}

\* The outcomes of the remote call in a script run.
RunOutcomes ==
    {Outcome("post", ReadTimeoutMessage, JsonNull),
     Outcome("ok", <<>>, SuccessBody(<<"Match", " ", "Percentage", ":", " ", "8", "2", "%">>)),
     Outcome("ok", <<>>, SuccessBody(<<"fine">>))}

\* The UploadedFile st.file_uploader hands to a script run: a stream over the
\* bytes, at position 0.
UploadedFile(file) == [name |-> file.name, data |-> file.data, pos |-> 0]

\* stream.read(): the bytes from the position to the end.
read(stream) == SubSeq(stream.data, stream.pos + 1, Len(stream.data))

\* fitz.open(stream=bytes, filetype="pdf") raises on an empty stream.
fitz_open(bytes) == IF bytes = <<>> THEN "EmptyFileError" ELSE ""

\* The key st.cache_data gives the argument of extract_text_from_pdf: the
\* name, the position and the bytes of the UploadedFile.
CacheKey(stream) == <<stream.name, stream.pos, stream.data>>

\* Lines 23-27 under st.cache_data: on a hit the stored text, the stream left
\* alone; on a miss the body runs, reads the stream to its end and the text
\* is stored.  pos is where the stream stands afterwards.
extract_text_from_pdf(stream, entries) ==
    IF \E entry \in entries : entry.key = CacheKey(stream)
    THEN [value |-> (CHOOSE entry \in entries : entry.key = CacheKey(stream)).value,
          pos |-> stream.pos, opened |-> <<>>, raised |-> "", cache |-> entries]
    ELSE LET bytes == read(stream)
         IN  IF fitz_open(bytes) # ""
             THEN [value |-> <<>>, pos |-> Len(stream.data), opened |-> <<bytes>>,
                   raised |-> fitz_open(bytes), cache |-> entries]
             ELSE [value |-> <<"text", bytes>>, pos |-> Len(stream.data),
                   opened |-> <<bytes>>, raised |-> "",
                   cache |-> entries \cup {[key |-> CacheKey(stream),
                                            value |-> <<"text", bytes>>]}]

\* Lines 30-38 on an UploadedFile: image holds the bytes the first page was
\* rendered from.
input_pdf_setup(stream) ==
    LET bytes == read(stream)
    IN  [image |-> IF fitz_open(bytes) = "" THEN <<bytes>> ELSE <<>>,
         opened |-> <<bytes>>, raised |-> fitz_open(bytes)]

\* if uploaded_file: of lines 150 and 203, with the guard left out.
HasResume_Always(file) == TRUE

\* if uploaded_file: of lines 150 and 203.
HasResume(file) == file # <<>>

\* A script run that rendered elements and made calls, and what it leaves of
\* the remote call and the match.
Ran(button, entries, calls, opened, rendered, image, answer, match) ==
    [cache |-> entries,
     run |-> [button |-> button, calls |-> calls, opened |-> opened,
              rendered |-> rendered, image |-> image],
     call |-> answer.call, response |-> answer.value, match |-> match]

NoAnswer == [call |-> "", value |-> Str(<<>>)]

\* What the upload handling of a page leaves: the exception it raised ("" for
\* none), the cache, the text and the image of the resume, the byte strings
\* handed to fitz.open and the elements rendered.
Handled(raised, entries, text, image, opened, rendered) ==
    [raised |-> raised, cache |-> entries, resume_text |-> text, image |-> image,
     opened |-> opened, rendered |-> rendered]

\* Line 129 after line 128 came to text: the image is taken from the stream
\* where line 128 left it.
analyzer_image(stream, text) ==
    IF text.raised # ""
    THEN Handled(text.raised, text.cache, <<>>, <<>>, text.opened, <<"success">>)
    ELSE Handled(input_pdf_setup([stream EXCEPT !.pos = text.pos]).raised, text.cache,
                 text.value, input_pdf_setup([stream EXCEPT !.pos = text.pos]).image,
                 text.opened \o input_pdf_setup([stream EXCEPT !.pos = text.pos]).opened,
                 <<"success">>)

\* Lines 124-129: the upload handling of the Resume Analyzer page.
analyzer_upload(file, entries) ==
    IF file = <<>> THEN Handled("", entries, <<>>, <<>>, <<>>, <<>>)
    ELSE analyzer_image(UploadedFile(file[1]),
                        extract_text_from_pdf(UploadedFile(file[1]), entries))

\* Lines 195-196 after line 195 came to text.
email_text(text) ==
    IF text.raised # ""
    THEN Handled(text.raised, text.cache, <<>>, <<>>, text.opened, <<"success">>)
    ELSE Handled("", text.cache, text.value, <<>>, text.opened, <<"success", "extracted">>)

\* Lines 191-196: the upload handling of the Cold Email Generator page.
email_upload(file, entries) ==
    IF file = <<>> THEN Handled("", entries, <<>>, <<>>, <<>>, <<>>)
    ELSE email_text(extract_text_from_pdf(UploadedFile(file[1]), entries))

\* A script run the upload handling ended with an exception.
Aborted(button, up) ==
    Ran(button, up.cache, <<>>, up.opened, up.rendered, <<>>, NoAnswer,
        [NoMatch EXCEPT !.uncaught = up.raised])

\* A script run that went through: calls are the calls of
\* get_openrouter_response, elements what the dispatch rendered.
Dispatched(button, up, calls, elements, answer, match) ==
    Ran(button, up.cache, calls, up.opened, up.rendered \o elements, up.image, answer, match)

\* The arguments of a call of get_openrouter_response.
Prompt(button, up) == [prompt |-> button, resume_text |-> up.resume_text]

\* Lines 150-182: the dispatch of the Resume Analyzer page, the upload
\* handling having come to up and the remote call, if made, to answer.
analyzer_dispatch(file, button, up, answer) ==
    IF up.raised # "" THEN Aborted(button, up)
    ELSE IF HasResume(file)
    THEN CASE button = "analyze" ->
                Dispatched(button, up, <<Prompt(button, up)>>, <<"analysis">>, answer,
                           NoMatch)
           [] button = "improve" ->
                Dispatched(button, up, <<Prompt(button, up)>>, <<"suggestions">>, answer,
                           NoMatch)
           [] button = "match" ->
                Dispatched(button, up, <<Prompt(button, up)>>,
                           IF answer.value.type # "str" THEN <<>>
                           ELSE (IF up.image # <<>> THEN <<"image">> ELSE <<>>)
                                    \o <<"match">>,
                           answer, interpret(answer.value))
           [] OTHER -> Dispatched(button, up, <<>>, <<>>, NoAnswer, NoMatch)
    ELSE IF button \in {"analyze", "improve", "match"}
    THEN Dispatched(button, up, <<>>, <<"st.error">>, NoAnswer, NoMatch)
    ELSE Dispatched(button, up, <<>>, <<>>, NoAnswer, NoMatch)

\* Lines 118-182: one run of the script on the Resume Analyzer page.
resume_analyzer(file, button, remote, entries) ==
    analyzer_dispatch(file, button, analyzer_upload(file, entries),
                      get_openrouter_response(remote))

\* job_description.strip() of line 203.
strip(text) == SelectSeq(text, LAMBDA c : c \notin Whitespace)

\* Lines 202-223: the dispatch of the Cold Email Generator page.
email_dispatch(file, description, button, up, answer) ==
    IF up.raised # "" THEN Aborted(button, up)
    ELSE IF button # "generate"
    THEN Dispatched(button, up, <<>>, <<>>, NoAnswer, NoMatch)
    ELSE IF HasResume(file) /\ strip(description) # <<>>
    THEN Dispatched(button, up, <<Prompt(button, up)>>, <<"email", "download">>, answer,
                    NoMatch)
    ELSE Dispatched(button, up, <<>>, <<"st.warning">>, NoAnswer, NoMatch)

\* Lines 187-223: one run of the script on the Cold Email Generator page.
cold_email_generator(file, description, button, remote, entries) ==
    email_dispatch(file, description, button, email_upload(file, entries),
                   get_openrouter_response(remote))

\* One run of the script from top to bottom: the widgets hold feature, file
\* and description, button is the button pressed ("" for none), and the
\* remote call, if made, comes to remote.
ScriptRun(feature, file, description, button, remote) ==
    \E done \in {IF feature = "Resume Analyzer"
                 THEN resume_analyzer(file, button, remote, cache)
                 ELSE cold_email_generator(file, description, button, remote, cache)} :
        /\ page' = feature
        /\ uploaded_file' = file
        /\ job_description' = description
        /\ cache' = done.cache
        /\ run' = done.run
        /\ outcome' = IF done.run.calls = <<>> THEN Outcome("", <<>>, JsonNull) ELSE remote
        /\ call' = done.call
        /\ response' = done.response
        /\ Show(done.match)

\* The interactions of the user; each one reruns the script.

\* Line 113: the other feature is selected.  The two file uploaders (lines
\* 122 and 190) are the same widget, label and type alike, and keep the
\* file; the text areas of lines 121 and 198 are not, and the one that comes
\* up is empty.
SelectFeature ==
    \E feature \in {"Resume Analyzer", "Cold Email Generator"} :
        /\ feature # page
        /\ ScriptRun(feature, uploaded_file, <<>>, "", outcome)

\* Lines 122 and 190: a PDF is put into the file uploader.
Upload ==
    \E file \in Files :
        /\ uploaded_file # <<file>>
        /\ ScriptRun(page, <<file>>, job_description, "", outcome)

\* Lines 122 and 190: the file is taken out of the file uploader.
RemoveFile ==
    /\ uploaded_file # <<>>
    /\ ScriptRun(page, <<>>, job_description, "", outcome)

\* Lines 121 and 198: the job description is edited.
EditJobDescription ==
    \E description \in JobDescriptions :
        /\ description # job_description
        /\ ScriptRun(page, uploaded_file, description, "", outcome)

\* Lines 134-136 and 202: a button of the page is pressed.
PressButton ==
    \E button \in IF page = "Resume Analyzer" THEN {"analyze", "improve", "match"}
                  ELSE {"generate"} :
        \E remote \in RunOutcomes :
            ScriptRun(page, uploaded_file, job_description, button, remote)

NextSession ==
    \/ SelectFeature
    \/ Upload
    \/ RemoveFile
    \/ EditJobDescription
    \/ PressButton

\* The session opens on the Resume Analyzer page, by a first run of the
\* script with nothing entered.
InitSession == Pending(Outcome("", <<>>, JsonNull))

SpecSession == InitSession /\ [][NextSession]_vars

\* ------------------------------------------------------------ the claims

Shown == pc = "shown"

\* The value of a run of decimal digits, counted from its first digit.
RECURSIVE DecimalValue(_)
DecimalValue(s) ==
    IF s = <<>> THEN 0
    ELSE DigitVal(Head(s)) * 10 ^ (Len(s) - 1) + DecimalValue(Tail(s))

InRange(v) == 50 <= v /\ v <= 100

\* The labeled field in text t: the label at i (its two words in any case,
\* with the blanks between them that the pattern of line 65 lets through,
\* none included), then only colons and blanks, then the digit run k..e-1
\* and a "%" at e.
LabeledField(t, i, k, e) ==
    /\ t[i] \in {"Match", "match", "MATCH"}
    /\ i < k /\ k < e /\ e <= Len(t)
    /\ t[e] = "%"
    /\ \A x \in k..(e - 1) : t[x] \in Digits
    /\ \E j \in (i + 1)..(k - 1) :
          /\ t[j] \in {"Percentage", "percentage", "PERCENTAGE"}
          /\ \A x \in (i + 1)..(j - 1) : t[x] \in Whitespace
          /\ \A x \in (j + 1)..(k - 1) : t[x] \in Whitespace \cup {":"}

FieldAt(t, i) ==
    /\ t[i] \in {"Match", "match", "MATCH"}
    /\ \E e \in (i + 1)..Len(t) :
          t[e] = "%" /\ \E k \in (i + 1)..(e - 1) : LabeledField(t, i, k, e)

HasLabeledField(t) == \E i \in 1..Len(t) : FieldAt(t, i)

\* a..b is a maximal digit run of t: digits, with no digit on either side.
MaximalDigitRun(t, a, b) ==
    /\ a <= b
    /\ t[a] \in Digits
    /\ a = 1 \/ t[a - 1] \notin Digits
    /\ b = Len(t) \/ t[b + 1] \notin Digits
    /\ \A x \in a..b : t[x] \in Digits

\* a..b is a digit run that is a whole word of t: no letter, digit or "_" on
\* either side.
WholeWordRun(t, a, b) ==
    /\ MaximalDigitRun(t, a, b)
    /\ a = 1 \/ ~IsWordChar(t[a - 1])
    /\ b = Len(t) \/ ~IsWordChar(t[b + 1])

RunValue(t, a, b) == DecimalValue(SubSeq(t, a, b))

\* C1: for every integer p in [0,100] the verdict is the one of the fixed
\* partition: Excellent 80..100, Strong 60..79, Good 40..59, Weak 20..39,
\* Poor 0..19, and p lies in exactly one of the five ranges.
C1_Partition ==
    {<<80, 100, "Excellent Match">>, <<60, 79, "Strong Match">>,
     <<40, 59, "Good Match">>, <<20, 39, "Weak Match">>,
     <<0, 19, "Poor Match">>}

C1_VerdictOfPartition ==
    (Shown /\ match_percentage \in 0..100) =>
        /\ Cardinality({r \in C1_Partition :
                          r[1] <= match_percentage /\ match_percentage <= r[2]}) = 1
        /\ \A r \in C1_Partition :
              (r[1] <= match_percentage /\ match_percentage <= r[2])
                  <=> verdict = r[3]

C1_Witness == Shown /\ match_percentage = 80 /\ verdict = "Excellent Match"

\* C2: when the text holds the labeled field, the percentage is the value of
\* the digit run of its first occurrence, whatever other numbers the text
\* holds and whether or not the value is below 50.
C2_LabeledFieldWins ==
    Shown =>
        \A i \in 1..Len(response.text) :
            (/\ FieldAt(response.text, i)
             /\ \A x \in 1..(i - 1) : ~FieldAt(response.text, x))
                => \A e \in (i + 1)..Len(response.text) : \A k \in (i + 1)..(e - 1) :
                      LabeledField(response.text, i, k, e)
                          => match_percentage = RunValue(response.text, k, e - 1)

\* A labeled value below 50 is returned although the text also holds a bare
\* number in [50,100].
C2_Witness ==
    /\ Shown
    /\ HasLabeledField(response.text)
    /\ match_percentage < 50
    /\ \E a, b \in 1..Len(response.text) :
          /\ WholeWordRun(response.text, a, b)
          /\ InRange(RunValue(response.text, a, b))

\* C3 as claimed: with no labeled field, the percentage is the value of the
\* first maximal digit run (bounded by non-digits) whose value is in [50,100].
C3_FirstMaximalRun ==
    (Shown /\ ~HasLabeledField(response.text)) =>
        \A a \in 1..Len(response.text) : \A b \in a..Len(response.text) :
            (/\ MaximalDigitRun(response.text, a, b)
             /\ InRange(RunValue(response.text, a, b))
             /\ \A x \in 1..(a - 1) : \A y \in x..(a - 1) :
                   ~(/\ MaximalDigitRun(response.text, x, y)
                     /\ InRange(RunValue(response.text, x, y))))
                => match_percentage = RunValue(response.text, a, b)

\* C3 as amended: with no labeled field, the percentage is the value of the
\* first digit run that is a whole word (bounded on both sides by a
\* character that is no letter, digit or "_", or by an end of the text) and
\* whose value is in [50,100]; whole-word runs below 50 or above 100 are
\* skipped.
C3_FirstWholeWordRun ==
    (Shown /\ ~HasLabeledField(response.text)) =>
        \A a \in 1..Len(response.text) : \A b \in a..Len(response.text) :
            (/\ WholeWordRun(response.text, a, b)
             /\ InRange(RunValue(response.text, a, b))
             /\ \A x \in 1..(a - 1) : \A y \in x..(a - 1) :
                   ~(/\ WholeWordRun(response.text, x, y)
                     /\ InRange(RunValue(response.text, x, y))))
                => match_percentage = RunValue(response.text, a, b)

\* A whole-word run out of range comes before the run that is returned.
C3_Witness ==
    /\ Shown
    /\ ~HasLabeledField(response.text)
    /\ \E a, b, x, y \in 1..Len(response.text) :
          /\ y < a
          /\ WholeWordRun(response.text, x, y)
          /\ ~InRange(RunValue(response.text, x, y))
          /\ WholeWordRun(response.text, a, b)
          /\ InRange(RunValue(response.text, a, b))
          /\ match_percentage = RunValue(response.text, a, b)

C5_ErrorStringYields50 ==
    (pc # "idle" /\ call = "except") =>
        /\ Shown
        /\ match_percentage = 50

\* C6: for every outcome of the remote call get_openrouter_response returns
\* a string, the content or a text that starts with the error marker, and
\* so the interpretation of the response raises nothing.
C6_AlwaysReturnsString ==
    pc # "idle" =>
        /\ response.type = "str"
        /\ call = "except" =>
              SubSeq(response.text, 1, Len(ErrorMarker)) = ErrorMarker
        /\ uncaught = ""

\* C7: the percentage is an integer in [0,100] for every response text, a
\* labeled field with an out-of-range value included, and both pie-chart
\* shares are non-negative.
C7_PercentageInRange ==
    Shown =>
        /\ match_percentage \in 0..100
        /\ sizes[1] >= 0
        /\ sizes[2] >= 0

\* C9: for every p in [0,100] the chart gets (p, 100 - p): the match share
\* is the percentage shown to the user and the two shares add up to 100.
C9_SharesAddUp ==
    (Shown /\ match_percentage \in 0..100) =>
        /\ Len(sizes) = 2
        /\ subheader = match_percentage
        /\ sizes[1] = subheader
        /\ sizes[1] + sizes[2] = 100

C9_Witness == Shown /\ subheader = 82 /\ sizes = <<82, 18>>

\* C8: in a script run where a button that needs a resume is pressed with no
\* file uploaded, get_openrouter_response is not called, no PDF is opened,
\* no result is rendered, and the one element rendered is st.error on the
\* analyzer page, st.warning on the email page.
C8_NoFileNoProcessing ==
    (run.button # "" /\ uploaded_file = <<>>) =>
        /\ run.calls = <<>>
        /\ run.opened = <<>>
        /\ run.image = <<>>
        /\ call = ""
        /\ pc = "idle"
        /\ run.rendered = IF page = "Resume Analyzer" THEN <<"st.error">>
                          ELSE <<"st.warning">>

\* Match with Job pressed after the resume was uploaded, read and removed.
C8_Witness ==
    /\ run.button = "match"
    /\ uploaded_file = <<>>
    /\ cache # {}
    /\ run.rendered = <<"st.error">>

\* C10: on the Resume Analyzer page, in every script run with an uploaded
\* file, input_pdf_setup opens the complete bytes of the upload, on a cache
\* miss as on a cache hit: the image comes from the uploaded document and
\* the run does not abort before the buttons are dispatched.
C10_SecondReadIsComplete ==
    (page = "Resume Analyzer" /\ uploaded_file # <<>>) =>
        /\ run.opened # <<>>
        /\ run.opened[Len(run.opened)] = uploaded_file[1].data
        /\ run.image = <<uploaded_file[1].data>>
        /\ uncaught # "EmptyFileError"

====
